---- MODULE Spec2Model ----
(***************************************************************************)
(* Slice-structure detection and slice extraction of                       *)
(* server/utils/dicomHelper.py.                                            *)
(*                                                                         *)
(* A dataset is the pair the DICOM reader hands over: the shape of the     *)
(* pixel buffer (when there is pixel data) and the tags the code reads.    *)
(* The encoder (convert_to_image) is external: its outcome for each slice  *)
(* index is an input, TRUE when it returns image bytes and FALSE when it   *)
(* returns None (any exception inside normalisation or encoding).          *)
(* Python indices are kept: Dim(shape, k) is shape[k].                     *)
(***************************************************************************)
EXTENDS Integers, Sequences, FiniteSets, TLC

VARIABLES ds, enc, arg, pc, report, result,
          pixels, gray,
          slice_index, cache, calls

\* the slice given to the normalisation of convert_to_image and its output
normvars == <<pixels, gray>>

\* the cache file of one key and the calls of convert_dicom_to_png_file
pngvars == <<slice_index, cache, calls>>

vars == <<ds, enc, arg, pc, report, result, normvars, pngvars>>

(***************************************************************************)
(* Bounds of the model.                                                    *)
(***************************************************************************)
\* largest size of a leading axis of the pixel buffer
MaxAxis == 3
\* largest value of the NumberOfFrames tag (smallest is -1)
MaxTag == 4
\* largest value of ImagesInAcquisition, NumberOfSlices, CardiacNumberOfImages
MaxIndicator == 1
\* longest PerFrameFunctionalGroupsSequence
MaxSeq == 1
\* largest max_slices argument (smallest is -1)
MaxLimit == 3
\* image height and width (the last two axes of every buffer of 2..4 axes)
Rows == 2
Cols == 3

(***************************************************************************)
(* Tag values.  A tag is absent, an integer, a sequence of some length, or *)
(* a value int() cannot convert (a multi-valued element).                  *)
(***************************************************************************)
Absent == [kind |-> "absent", v |-> 0]

MultiValue == [kind |-> "multi", v |-> 0]

IntTag(n) == [kind |-> "int", v |-> n]

SeqTag(n) == [kind |-> "seq", v |-> n]

NoneArg == [kind |-> "none", v |-> 0]

NonNumericArg == [kind |-> "text", v |-> 0]

IntArg(n) == [kind |-> "int", v |-> n]

hasattr(tag) == tag.kind # "absent"

\* Python truthiness of a tag value: a nonzero integer, a non-empty sequence
Truthy(tag) ==
    \/ tag.kind = "int" /\ tag.v # 0
    \/ tag.kind = "multi"
    \/ tag.kind = "seq" /\ tag.v > 0

\* int(tag) raises for a value that is no single integer
IntRaises(tag) == tag.kind # "int"

Dim(shape, k) == shape[k + 1]

Max2(a, b) == IF a >= b THEN a ELSE b

Min2(a, b) == IF a <= b THEN a ELSE b

(***************************************************************************)
(* detect_slice_count                                                      *)
(***************************************************************************)
Raised == [raised |-> TRUE, total_slices |-> 1, slice_type |-> "unknown",
           detection_method |-> <<"unknown">>]

Decided(n, type, method) ==
    [raised |-> FALSE, total_slices |-> n, slice_type |-> type,
     detection_method |-> <<method>>]

\* Method 1 applies: the tag is there and its value is truthy
FramesTagApplies(tags) ==
    hasattr(tags.NumberOfFrames) /\ Truthy(tags.NumberOfFrames)

\* Method 4: the slice indicators that are present, in the order appended
SliceIndicators(tags) ==
    LET one(t) == IF hasattr(t) THEN <<t.v>> ELSE <<>>
    IN  one(tags.ImagesInAcquisition) \o one(tags.NumberOfSlices)
            \o one(tags.CardiacNumberOfImages)

IndicatorRaises(tags) ==
    \E t \in {tags.ImagesInAcquisition, tags.NumberOfSlices,
              tags.CardiacNumberOfImages} : hasattr(t) /\ IntRaises(t)

MaxOf(s) == CHOOSE m \in {s[k] : k \in 1..Len(s)} :
                \A k \in 1..Len(s) : s[k] <= m

\* mutant of ArrayRule4d: the second axis is taken as the slice axis
ArrayRule4d_SecondAxis(shape) ==
    Decided(Dim(shape, 1), "multi_frame_4d", "4d_array_analysis")

\* Method 2 on a 4-D buffer: the larger of the first two axes
ArrayRule4d(shape) ==
    Decided(IF Dim(shape, 0) < Dim(shape, 1) THEN Dim(shape, 1)
                                             ELSE Dim(shape, 0),
            "multi_frame_4d", "4d_array_analysis")

\* the decision rules, before the validation of the count
DecisionRules(shape, tags) ==
    IF FramesTagApplies(tags)
    THEN IF IntRaises(tags.NumberOfFrames)
         THEN Raised
         ELSE Decided(tags.NumberOfFrames.v,
                      IF Len(shape) = 3 THEN "multi_frame_3d"
                                        ELSE "multi_frame_sequence",
                      "number_of_frames_tag")
    ELSE IF Len(shape) = 4
    THEN ArrayRule4d(shape)
    ELSE IF Len(shape) = 3
    THEN Decided(Dim(shape, 0), "multi_frame_3d", "3d_array_analysis")
    ELSE IF Len(shape) = 2
    THEN Decided(1, "single_slice", "2d_array_single_slice")
    ELSE IF hasattr(tags.PerFrameFunctionalGroupsSequence)
    THEN Decided(tags.PerFrameFunctionalGroupsSequence.v,
                 "multi_frame_sequence", "per_frame_functional_groups")
    ELSE IF IndicatorRaises(tags)
    THEN Raised
    ELSE IF SliceIndicators(tags) # <<>>
    THEN Decided(MaxOf(SliceIndicators(tags)), "multi_frame_tagged",
                 "dicom_tag_heuristics")
    ELSE Decided(1, "single_slice", "fallback_single_slice")

\* mutant of ValidateCount: the count is not validated
ValidateCount_NoClamp(shape, r) == r

\* the validation: a count above shape[0] is replaced by shape[0]
ValidateCount(shape, r) ==
    IF Len(shape) >= 3 /\ r.total_slices > Dim(shape, 0)
    THEN [r EXCEPT !.total_slices = Dim(shape, 0),
                   !.detection_method = Append(@, "_corrected")]
    ELSE r

\* mutant of calculate_detection_confidence: the tag counts only when its
\* value is truthy, as in Method 1
calculate_detection_confidence_Truthy(total_slices, shape, tags) ==
    LET c0 == 5
        c1 == IF FramesTagApplies(tags) THEN c0 + 4 ELSE c0
        c2 == IF Len(shape) >= 3 /\ total_slices = Dim(shape, 0)
              THEN c1 + 3 ELSE c1
        c3 == IF total_slices = 1 /\ Len(shape) > 2 THEN c2 - 3 ELSE c2
    IN  Min2(10, Max2(1, c3))

\* confidence in tenths: 0.5 is 5, 1.0 is 10
calculate_detection_confidence(total_slices, shape, tags) ==
    LET c0 == 5
        c1 == IF hasattr(tags.NumberOfFrames) THEN c0 + 4 ELSE c0
        c2 == IF Len(shape) >= 3 /\ total_slices = Dim(shape, 0)
              THEN c1 + 3 ELSE c1
        c3 == IF total_slices = 1 /\ Len(shape) > 2 THEN c2 - 3 ELSE c2
    IN  Min2(10, Max2(1, c3))

ErrorFallback ==
    [total_slices |-> 1, slice_type |-> "single_slice",
     detection_method |-> <<"error_fallback">>, error |-> TRUE,
     confidence |-> 1]

detect_slice_count(shape, tags) ==
    LET r == DecisionRules(shape, tags)
    IN  IF r.raised
        THEN ErrorFallback
        ELSE LET v == ValidateCount(shape, r)
             IN  [total_slices |-> v.total_slices,
                  slice_type |-> v.slice_type,
                  detection_method |-> v.detection_method,
                  error |-> FALSE,
                  confidence |-> calculate_detection_confidence(
                                     v.total_slices, shape, tags)]

(***************************************************************************)
(* Inputs                                                                  *)
(***************************************************************************)
Shapes ==
    {<<n>> : n \in 1..MaxAxis}
        \cup {<<Rows, Cols>>}
        \cup {<<n, Rows, Cols>> : n \in 1..MaxAxis}
        \cup {<<t, n, Rows, Cols>> : t \in 1..MaxAxis, n \in 1..MaxAxis}

FramesTagValues == {Absent, MultiValue} \cup {IntTag(n) : n \in -1..MaxTag}

IndicatorValues ==
    {Absent, MultiValue} \cup {IntTag(n) : n \in 0..MaxIndicator}

SequenceValues == {Absent} \cup {SeqTag(n) : n \in 0..MaxSeq}

TagSets ==
    [NumberOfFrames : FramesTagValues,
     PerFrameFunctionalGroupsSequence : SequenceValues,
     ImagesInAcquisition : IndicatorValues,
     NumberOfSlices : IndicatorValues,
     CardiacNumberOfImages : IndicatorValues]

\* datasets with pixel data
PixelDatasets == [has_pixel : {TRUE}, shape : Shapes, tags : TagSets]

\* The tags of the files given to extraction: every NumberOfFrames value;
\* each tag that is read only for buffers of other than 2..4 axes is absent
\* or holds one value.
FileTagSets ==
    [NumberOfFrames : FramesTagValues,
     PerFrameFunctionalGroupsSequence : {Absent, SeqTag(MaxSeq)},
     ImagesInAcquisition : {Absent, IntTag(MaxIndicator)},
     NumberOfSlices : {Absent, IntTag(0)},
     CardiacNumberOfImages : {Absent, MultiValue}]

\* files: with pixel data of every shape, or without pixel data
Files ==
    [has_pixel : {TRUE}, shape : Shapes, tags : FileTagSets]
        \cup [has_pixel : {FALSE}, shape : {<<>>}, tags : FileTagSets]

\* encoder outcomes: for each slice index, whether convert_to_image
\* returns image bytes
Encoders == [0..(MaxAxis - 1) -> BOOLEAN]

\* max_slices as a caller passes it, or argv[4] of the command line
Limits == {NoneArg} \cup {IntArg(n) : n \in -1..MaxLimit}

NoReport == [total_slices |-> 0, slice_type |-> "none",
             detection_method |-> <<>>, error |-> FALSE, confidence |-> 0]

NoResult == [success |-> FALSE, error |-> "not called"]

\* no slice is being normalised
NoPixels == [dtype |-> "none", data |-> <<>>]

NormIdle == pixels = NoPixels /\ gray = <<>>

\* no call of convert_dicom_to_png_file is made
NoCache == [exists |-> FALSE, bytes |-> {}, slice |-> 0, opens |-> 0]

PngIdle == slice_index = 0 /\ cache = NoCache /\ calls = <<>>

(***************************************************************************)
(* Detection on its own: detect_slice_count applied to a buffer and tags.  *)
(***************************************************************************)
InitDetect ==
    /\ ds \in PixelDatasets
    /\ enc = [i \in 0..(MaxAxis - 1) |-> TRUE]
    /\ arg = NoneArg
    /\ pc = "ready"
    /\ report = NoReport
    /\ result = NoResult
    /\ NormIdle
    /\ PngIdle

Detect ==
    /\ pc = "ready"
    /\ ds.has_pixel
    /\ report' = detect_slice_count(ds.shape, ds.tags)
    /\ pc' = "detected"
    /\ UNCHANGED <<ds, enc, arg, result, normvars, pngvars>>

NextDetect == Detect

SpecDetect == InitDetect /\ [][NextDetect]_vars

(***************************************************************************)
(* extract_dicom_slices                                                    *)
(***************************************************************************)
\* any exception that reaches the outer handler
Failure == [success |-> FALSE, error |-> "exception"]

\* mutant of num_slices_to_process: the limit is ignored
num_slices_to_process_NoLimit(total_slices, max_slices) == total_slices

num_slices_to_process(total_slices, max_slices) ==
    IF max_slices.kind = "none"
    THEN total_slices
    ELSE Min2(total_slices, max_slices.v)

processing_mode(max_slices) ==
    IF max_slices.kind = "none" THEN "auto_all_slices" ELSE "limited_slices"

\* reading slice i out of the buffer raises IndexError
ReadRaises(shape, slice_type, i) ==
    IF slice_type = "multi_frame_4d" /\ Len(shape) = 4
    THEN i >= Dim(shape, 1)
    ELSE i >= Dim(shape, 0)

\* mutant of SliceRecord: slices numbered from 1
SliceRecord_OneBased(i) == [slice_number |-> i + 1]

SliceRecord(i) == [slice_number |-> i]

\* the for loop over range(n) from index i on; acc is slices so far
RECURSIVE SliceLoop(_, _, _, _, _, _)
SliceLoop(shape, slice_type, encoder, n, i, acc) ==
    IF i >= n
    THEN [raised |-> FALSE, slices |-> acc]
    ELSE IF ReadRaises(shape, slice_type, i)
    THEN [raised |-> TRUE, slices |-> acc]
    ELSE SliceLoop(shape, slice_type, encoder, n, i + 1,
                   IF encoder[i] THEN Append(acc, SliceRecord(i)) ELSE acc)

\* the branch on slice_type
ProcessSlices(shape, slice_type, encoder, n) ==
    IF slice_type \in {"multi_frame_3d", "multi_frame_4d"}
    THEN SliceLoop(shape, slice_type, encoder, n, 0, <<>>)
    ELSE IF slice_type = "single_slice"
    THEN [raised |-> FALSE,
          slices |-> IF encoder[0] THEN <<SliceRecord(0)>> ELSE <<>>]
    ELSE [raised |-> FALSE, slices |-> <<>>]

extract_dicom_slices(file, max_slices, encoder) ==
    IF ~file.has_pixel
    THEN Failure   \* the return reads detected_slices, never assigned
    ELSE LET detected == detect_slice_count(file.shape, file.tags)
             n == num_slices_to_process(detected.total_slices, max_slices)
             p == ProcessSlices(file.shape, detected.slice_type, encoder, n)
         IN  IF p.raised
             THEN Failure
             ELSE [success |-> TRUE,
                   metadata |->
                       [total_slices |-> detected.total_slices,
                        is_multi_slice |-> detected.total_slices > 1,
                        slice_detection_method |-> detected.detection_method,
                        slice_type |-> detected.slice_type,
                        processing_mode |-> processing_mode(max_slices),
                        max_slices_requested |-> max_slices],
                   slices |-> p.slices,
                   total_slices_extracted |-> Len(p.slices),
                   auto_detection_info |-> detected]

(***************************************************************************)
(* main, command extract_slices: argv[4] to max_slices                     *)
(***************************************************************************)
\* mutant of ParseMaxSlices: 0 and negative values are passed on
ParseMaxSlices_NoRewrite(raw) ==
    IF raw.kind = "int" THEN raw ELSE NoneArg

ParseMaxSlices(raw) ==
    IF raw.kind = "int" /\ raw.v > 0 THEN raw ELSE NoneArg

main_extract_slices(file, raw, encoder) ==
    extract_dicom_slices(file, ParseMaxSlices(raw), encoder)

(***************************************************************************)
(* Extraction of one file: called directly with max_slices = arg, or       *)
(* through the command line with argv[4] = arg.                            *)
(***************************************************************************)
Init ==
    /\ ds \in Files
    /\ enc \in Encoders
    /\ arg \in Limits \cup {NonNumericArg}
    /\ pc = "ready"
    /\ report = NoReport
    /\ result = NoResult
    /\ NormIdle
    /\ PngIdle

Extract ==
    /\ pc = "ready"
    /\ arg.kind \in {"none", "int"}
    /\ result' = extract_dicom_slices(ds, arg, enc)
    /\ report' = IF ds.has_pixel
                 THEN detect_slice_count(ds.shape, ds.tags) ELSE report
    /\ pc' = "extracted"
    /\ UNCHANGED <<ds, enc, arg, normvars, pngvars>>

Main ==
    /\ pc = "ready"
    /\ result' = main_extract_slices(ds, arg, enc)
    /\ report' = IF ds.has_pixel
                 THEN detect_slice_count(ds.shape, ds.tags) ELSE report
    /\ pc' = "main_done"
    /\ UNCHANGED <<ds, enc, arg, normvars, pngvars>>

Next == Extract \/ Main

Spec == Init /\ [][Next]_vars

(***************************************************************************)
(* convert_to_image: the normalisation of one 2-D slice to 8 bits.  A      *)
(* slice is a 1 x 3 array of samples of one integer dtype.                 *)
(***************************************************************************)
Uint8Samples == {0, 1, 255}

Uint16Samples == {0, 1, 255, 256, 1000, 65535}

Int16Samples == {-32768, -1, 0, 255, 256, 1000, 32767}

SamplesOf(dtype) ==
    IF dtype = "uint8" THEN Uint8Samples
    ELSE IF dtype = "uint16" THEN Uint16Samples
    ELSE Int16Samples

\* the value an integer takes in the dtype (arithmetic wraps around)
Wrap(dtype, x) ==
    IF dtype = "int16" THEN ((x + 32768) % 65536) - 32768
    ELSE IF dtype = "uint16" THEN x % 65536
    ELSE x % 256

ArrayMax(data) == CHOOSE m \in {data[k] : k \in DOMAIN data} :
                      \A k \in DOMAIN data : data[k] <= m

ArrayMin(data) == CHOOSE m \in {data[k] : k \in DOMAIN data} :
                      \A k \in DOMAIN data : m <= data[k]

\* astype(np.uint8) of an integer: the low 8 bits
CastUint8(x) == x % 256

\* (x - min) and (max - min) in the array's dtype, then the float
\* (x - min) / (max - min) * 255 as the fraction num / den with den > 0
StretchFraction(dtype, x, lo, hi) ==
    LET d == Wrap(dtype, x - lo)
        D == Wrap(dtype, hi - lo)
    IN  IF D > 0 THEN [num |-> d * 255, den |-> D]
                 ELSE [num |-> (0 - d) * 255, den |-> 0 - D]

\* astype(np.uint8) of that float is defined when it truncates into 0..255
StretchDefined(dtype, x, lo, hi) ==
    LET f == StretchFraction(dtype, x, lo, hi)
    IN  f.num > 0 - f.den /\ f.num < 256 * f.den

\* the truncation toward zero
StretchValue(dtype, x, lo, hi) ==
    LET f == StretchFraction(dtype, x, lo, hi)
    IN  IF f.num >= 0 THEN f.num \div f.den ELSE 0

\* which branch of the normalisation a slice takes
NormBranch(p) ==
    IF p.dtype = "uint8" THEN "unchanged"
    ELSE IF ArrayMax(p.data) > 255 THEN "stretch"
    ELSE "cast"

\* the 8-bit slice; u stands for the outcome of a cast that is not defined
Normalized(p, u) ==
    LET lo == ArrayMin(p.data)
        hi == ArrayMax(p.data)
    IN  [k \in DOMAIN p.data |->
            IF NormBranch(p) = "unchanged" THEN p.data[k]
            ELSE IF NormBranch(p) = "cast" THEN CastUint8(p.data[k])
            ELSE IF StretchDefined(p.dtype, p.data[k], lo, hi)
            THEN StretchValue(p.dtype, p.data[k], lo, hi)
            ELSE u]

\* slices with a nonzero range
Slices ==
    {p \in UNION {[dtype : {t}, data : SamplesOf(t) \X SamplesOf(t) \X SamplesOf(t)]
                      : t \in {"uint8", "uint16", "int16"}} :
        ArrayMin(p.data) # ArrayMax(p.data)}

InitNorm ==
    /\ pixels \in Slices
    /\ gray = <<>>
    /\ ds \in [has_pixel : {TRUE}, shape : {<<Rows, Cols>>},
               tags : [NumberOfFrames : {Absent},
                       PerFrameFunctionalGroupsSequence : {Absent},
                       ImagesInAcquisition : {Absent},
                       NumberOfSlices : {Absent},
                       CardiacNumberOfImages : {Absent}]]
    /\ enc = [i \in 0..(MaxAxis - 1) |-> TRUE]
    /\ arg = NoneArg
    /\ pc = "ready"
    /\ report = NoReport
    /\ result = NoResult
    /\ PngIdle

Normalize ==
    /\ pixels # NoPixels
    /\ gray = <<>>
    /\ \E u \in 0..255 : gray' = Normalized(pixels, u)
    /\ UNCHANGED <<ds, enc, arg, pc, report, result, pixels, pngvars>>

NextNorm == Normalize

SpecNorm == InitNorm /\ [][NextNorm]_vars

(***************************************************************************)
(* convert_dicom_to_png_file: calls with the same file_path, output_dir    *)
(* and slice_index, hence the same png_path.  cache is the file at         *)
(* png_path: whether it exists, which of its NumChunks chunks hold image   *)
(* bytes, the slice the image shows and how often it was opened for        *)
(* writing.  The image of a slice is a function of the source file, so the *)
(* chunks written by different callers are the same bytes.                 *)
(***************************************************************************)
NumCallers == 2

NumChunks == 2

Callers == 1..NumCallers

\* md5 of f"{file_path}_{slice_index}", joined to output_dir: one path per
\* slice_index argument for the one file_path and output_dir of the model
png_path(index) == <<"output_dir", "file_path", index>>

NoReturn == [success |-> FALSE, cached |-> FALSE, png_path |-> <<>>,
             error |-> "not returned"]

PngCached(index) == [success |-> TRUE, cached |-> TRUE,
                     png_path |-> png_path(index), error |-> ""]

PngWritten(index) == [success |-> TRUE, cached |-> FALSE,
                      png_path |-> png_path(index), error |-> ""]

PngFailure(message) == [success |-> FALSE, cached |-> FALSE,
                        png_path |-> <<>>, error |-> message]

\* mutant of path_exists: the cached file is never found
path_exists_Never(file) == FALSE

\* os.path.exists(png_path)
path_exists(file) == file.exists

\* the file holds the whole image
Complete(file) == file.exists /\ file.bytes = 1..NumChunks

\* slice_index after "if slice_index >= pixel_array.shape[0]: slice_index = 0"
PickedIndex(shape, index) ==
    IF Len(shape) = 3 /\ index >= Dim(shape, 0) THEN 0 ELSE index

\* pixel_array[slice_index] raises IndexError below -shape[0];
\* Image.fromarray raises for pixel_data of more than 2 axes
RenderRaises(shape, index) ==
    \/ Len(shape) = 3 /\ PickedIndex(shape, index) < 0 - Dim(shape, 0)
    \/ Len(shape) > 3

\* the slice of the buffer that is rendered (a negative index counts from
\* the end; a buffer of 2 axes is rendered whole)
RenderedSlice(shape, index) ==
    IF Len(shape) # 3 THEN 0
    ELSE IF PickedIndex(shape, index) < 0
         THEN Dim(shape, 0) + PickedIndex(shape, index)
         ELSE PickedIndex(shape, index)

NoTags == [NumberOfFrames |-> Absent,
           PerFrameFunctionalGroupsSequence |-> Absent,
           ImagesInAcquisition |-> Absent,
           NumberOfSlices |-> Absent,
           CardiacNumberOfImages |-> Absent]

\* source files: pixel buffers of 2 to 4 axes, or no pixel data
PngFiles ==
    {f \in Files : f.tags = NoTags /\ (f.has_pixel => Len(f.shape) \in 2..4)}

SliceIndexes == (0 - (MaxAxis + 1))..MaxAxis

NewCall == [pc |-> "start", pos |-> 0, res |-> NoReturn, complete |-> FALSE]

Returned(call, res) ==
    [call EXCEPT !.pc = "done", !.res = res, !.complete = Complete(cache')]

InitPng ==
    /\ ds \in PngFiles
    /\ slice_index \in SliceIndexes
    /\ cache = NoCache
    /\ calls = [p \in Callers |-> NewCall]
    /\ enc = [i \in 0..(MaxAxis - 1) |-> TRUE]
    /\ arg = NoneArg
    /\ pc = "ready"
    /\ report = NoReport
    /\ result = NoResult
    /\ NormIdle

\* lines 338-352: the key is computed and the cache is looked up
CheckCache(p) ==
    /\ calls[p].pc = "start"
    /\ cache' = cache
    /\ IF path_exists(cache)
       THEN calls' = [calls EXCEPT ![p] = Returned(@, PngCached(slice_index))]
       ELSE calls' = [calls EXCEPT ![p].pc = "read"]
    /\ UNCHANGED <<ds, enc, arg, pc, report, result, normvars, slice_index>>

\* lines 355-382: the source is read, the slice is picked, normalised and
\* made an image; an exception returns the failure of lines 393-397
Render(p) ==
    /\ calls[p].pc = "read"
    /\ cache' = cache
    /\ IF ~ds.has_pixel
       THEN calls' = [calls EXCEPT
                ![p] = Returned(@, PngFailure("No pixel data found in DICOM file"))]
       ELSE IF RenderRaises(ds.shape, slice_index)
       THEN calls' = [calls EXCEPT ![p] = Returned(@, PngFailure("exception"))]
       ELSE calls' = [calls EXCEPT ![p].pc = "save"]
    /\ UNCHANGED <<ds, enc, arg, pc, report, result, normvars, slice_index>>

\* line 383, image.save opens png_path for writing: the file is created,
\* or emptied if it exists
OpenPng(p) ==
    /\ calls[p].pc = "save"
    /\ cache' = [exists |-> TRUE, bytes |-> {},
                 slice |-> RenderedSlice(ds.shape, slice_index),
                 opens |-> cache.opens + 1]
    /\ calls' = [calls EXCEPT ![p].pc = "writing", ![p].pos = 0]
    /\ UNCHANGED <<ds, enc, arg, pc, report, result, normvars, slice_index>>

\* line 383, image.save writes the next chunk at its own file position;
\* after the last one the call returns the result of lines 385-391
WritePng(p) ==
    /\ calls[p].pc = "writing"
    /\ cache' = [cache EXCEPT !.bytes = @ \cup {calls[p].pos + 1}]
    /\ IF calls[p].pos + 1 = NumChunks
       THEN calls' = [calls EXCEPT ![p] = Returned(@, PngWritten(slice_index))]
       ELSE calls' = [calls EXCEPT ![p].pos = @ + 1]
    /\ UNCHANGED <<ds, enc, arg, pc, report, result, normvars, slice_index>>

\* concurrent callers: any caller takes its next step
NextPng ==
    \E p \in Callers :
        \/ CheckCache(p)
        \/ Render(p)
        \/ OpenPng(p)
        \/ WritePng(p)

SpecPng == InitPng /\ [][NextPng]_vars

\* sequential calls: a call starts when the calls before it have returned
Turn(p) == \A q \in Callers : q < p => calls[q].pc = "done"

NextPngSeq ==
    \E p \in Callers :
        \/ Turn(p) /\ CheckCache(p)
        \/ Turn(p) /\ Render(p)
        \/ Turn(p) /\ OpenPng(p)
        \/ Turn(p) /\ WritePng(p)

SpecPngSeq == InitPng /\ [][NextPngSeq]_vars

(***************************************************************************)
(* Properties of extraction (under Spec)                                   *)
(***************************************************************************)
Called == pc \in {"extracted", "main_done"}

\* the buffer has 2 to 4 axes (the PixelBuffer of the data model)
ImageBuffer == ds.has_pixel /\ Len(ds.shape) \in 2..4

\* max_slices as extract_dicom_slices received it
PassedLimit == result.metadata.max_slices_requested

ReportedTotal == result.auto_detection_info.total_slices

ReportedType == result.auto_detection_info.slice_type

\* min(total_slices, max_slices), or total_slices when no limit was passed
LimitBound ==
    IF PassedLimit.kind = "none"
    THEN ReportedTotal
    ELSE Min2(ReportedTotal, PassedLimit.v)

SliceNumbers == {result.slices[k].slice_number : k \in 1..Len(result.slices)}

\* the slice indices the call tries to render
TriedIndices ==
    IF ReportedType = "single_slice" THEN {0}
    ELSE IF ReportedType \in {"multi_frame_3d", "multi_frame_4d"}
    THEN 0..(LimitBound - 1)
    ELSE {}

\* C1 as stated, on buffers of 2 to 4 axes whose report has
\* total_slices >= 1: in every successful result total_slices_extracted =
\* len(slices) and len(slices) is at most min(total_slices, max_slices),
\* whatever max_slices was passed.
C1_Original ==
    (Called /\ result.success /\ ImageBuffer /\ ReportedTotal >= 1) =>
        /\ result.total_slices_extracted = Len(result.slices)
        /\ Len(result.slices) <= LimitBound

\* C1 amended: in every successful result total_slices_extracted =
\* len(slices); for a single_slice report the loop bound is ignored and
\* len(slices) <= 1; for every other slice type len(slices) is at most
\* min(total_slices, max_slices) (total_slices with no limit), and 0 when
\* that bound is negative.
C1_ExtractedCount ==
    (Called /\ result.success) =>
        /\ result.total_slices_extracted = Len(result.slices)
        /\ IF ReportedType = "single_slice"
           THEN Len(result.slices) <= 1
           ELSE Len(result.slices) <= Max2(0, LimitBound)

\* a limit below the detected count was passed and that many slices came back
C1_Witness ==
    /\ Called /\ result.success
    /\ PassedLimit.kind = "int" /\ PassedLimit.v >= 2
    /\ PassedLimit.v < ReportedTotal
    /\ Len(result.slices) = PassedLimit.v

\* C2 as stated: in every successful result the slice_number values, in
\* list order, are 0, 1, ..., total_slices_extracted-1.
C2_Original ==
    (Called /\ result.success) =>
        \A k \in 1..Len(result.slices) :
            result.slices[k].slice_number = k - 1

\* C2 amended: in every successful result the slice_number values are
\* strictly ascending in list order (no duplicate) and are exactly the tried
\* indices for which the encoder returned bytes; an index whose encoding
\* returned nothing is left out and leaves a gap.
C2_SliceNumbers ==
    (Called /\ result.success) =>
        /\ \A k \in 1..Len(result.slices), l \in 1..Len(result.slices) :
               k < l => result.slices[k].slice_number
                            < result.slices[l].slice_number
        /\ SliceNumbers = {i \in TriedIndices : enc[i]}

\* the encoder returned nothing for slice 1 and slices 0 and 2 came back
C2_Witness ==
    /\ Called /\ result.success
    /\ ~enc[1]
    /\ Len(result.slices) = 2
    /\ result.slices[1].slice_number = 0
    /\ result.slices[2].slice_number = 2

\* C3 as stated: extraction of a readable dataset without pixel data
\* returns success with no slices.
C3_Original ==
    (Called /\ ~ds.has_pixel) =>
        /\ result.success
        /\ result.slices = <<>>
        /\ result.total_slices_extracted = 0

\* the two results agree in success, slices and processing_mode
SameOutcome(a, b) ==
    /\ a.success = b.success
    /\ a.success =>
        /\ a.slices = b.slices
        /\ a.metadata.processing_mode = b.metadata.processing_mode

\* C4 as stated, on buffers of 2 to 4 axes: extract_dicom_slices called
\* with max_slices <= 0 returns what it returns with max_slices = None.
C4_Original ==
    (pc = "extracted" /\ ImageBuffer /\ arg.kind = "int" /\ arg.v <= 0) =>
        SameOutcome(result, extract_dicom_slices(ds, NoneArg, enc))

\* C4 amended: the command-line entry given argv[4] <= 0 returns what
\* extract_dicom_slices returns with max_slices = None, in mode
\* auto_all_slices.
C4_MainZeroIsAbsent ==
    (pc = "main_done" /\ arg.kind = "int" /\ arg.v <= 0) =>
        /\ SameOutcome(result, extract_dicom_slices(ds, NoneArg, enc))
        /\ result.success =>
               result.metadata.processing_mode = "auto_all_slices"

\* the command line got 0 or less and several slices came back
C4_Witness ==
    /\ pc = "main_done" /\ arg.kind = "int" /\ arg.v <= 0
    /\ result.success
    /\ Len(result.slices) >= 2

\* C10 as stated: with pixel data present, neither a failed detection nor a
\* failure on one slice aborts the call: it succeeds, a failed detection
\* gives the single-slice report, and the slices whose encoding worked are
\* returned.
C10_Original ==
    (Called /\ ds.has_pixel) =>
        /\ result.success
        /\ report.error =>
               result.auto_detection_info.slice_type = "single_slice"
        /\ SliceNumbers = {i \in TriedIndices : enc[i]}

\* C14 as stated, on buffers of 2 to 4 axes, a report with
\* total_slices >= 1 and max_slices None or positive: when the encoder
\* succeeds for every slice, a successful result holds exactly
\* slices_to_process slice records, whatever the slice_type.
C14_Original ==
    (/\ Called /\ result.success /\ ImageBuffer
     /\ \A i \in DOMAIN enc : enc[i]
     /\ ReportedTotal >= 1
     /\ PassedLimit.kind = "none" \/ PassedLimit.v >= 1) =>
        Len(result.slices) = LimitBound

(***************************************************************************)
(* Properties of detection (under SpecDetect)                              *)
(***************************************************************************)
Detected == pc = "detected"

FramesTag == ds.tags.NumberOfFrames

FramesTagAbsentOrZero ==
    FramesTag.kind = "absent" \/ (FramesTag.kind = "int" /\ FramesTag.v = 0)

EndsCorrected(method) ==
    Len(method) > 0 /\ method[Len(method)] = "_corrected"

\* C5: for a buffer of 3 or more axes the reported total_slices is at most
\* shape[0], and the method ends in "_corrected" exactly when the decision
\* rules gave a count above shape[0], which was replaced by shape[0].
C5_ClampToFirstAxis ==
    (Detected /\ Len(ds.shape) >= 3) =>
        LET rules == DecisionRules(ds.shape, ds.tags)
            over == ~rules.raised /\ rules.total_slices > Dim(ds.shape, 0)
        IN  /\ report.total_slices <= Dim(ds.shape, 0)
            /\ EndsCorrected(report.detection_method) <=> over
            /\ over => report.total_slices = Dim(ds.shape, 0)
            /\ (~rules.raised /\ ~over) =>
                   report.total_slices = rules.total_slices

\* a frame count above shape[0] on a 3-D buffer was clamped
C5_Witness ==
    /\ Detected /\ Len(ds.shape) = 3
    /\ FramesTag.kind = "int" /\ FramesTag.v > Dim(ds.shape, 0)
    /\ report.total_slices = Dim(ds.shape, 0)
    /\ report.detection_method = <<"number_of_frames_tag", "_corrected">>

\* C6 as stated, on buffers of 2 to 4 axes: the number_of_frames rule is
\* applied when the tag is present and positive, and not applied when it is
\* absent, zero or negative.
C6_Original ==
    (Detected /\ ImageBuffer) =>
        /\ (FramesTag.kind = "int" /\ FramesTag.v > 0) =>
               /\ report.detection_method[1] = "number_of_frames_tag"
               /\ report.total_slices =
                      IF Len(ds.shape) >= 3 /\ FramesTag.v > Dim(ds.shape, 0)
                      THEN Dim(ds.shape, 0) ELSE FramesTag.v
               /\ report.slice_type =
                      IF Len(ds.shape) = 3 THEN "multi_frame_3d"
                                           ELSE "multi_frame_sequence"
        /\ (FramesTag.kind = "absent"
                \/ (FramesTag.kind = "int" /\ FramesTag.v <= 0)) =>
               report.detection_method[1] # "number_of_frames_tag"

\* C7 as stated, on a tag that is absent or zero: a 4-D buffer is reported with
\* max(shape[0], shape[1]) slices and method "4d_array_analysis", a 3-D
\* buffer with shape[0] and "3d_array_analysis", a 2-D buffer with 1 and
\* "2d_array_single_slice".
C7_Original ==
    (Detected /\ FramesTagAbsentOrZero) =>
        /\ Len(ds.shape) = 4 =>
               /\ report.total_slices
                      = Max2(Dim(ds.shape, 0), Dim(ds.shape, 1))
               /\ report.slice_type = "multi_frame_4d"
               /\ report.detection_method = <<"4d_array_analysis">>
        /\ Len(ds.shape) = 3 =>
               /\ report.total_slices = Dim(ds.shape, 0)
               /\ report.slice_type = "multi_frame_3d"
               /\ report.detection_method = <<"3d_array_analysis">>
        /\ Len(ds.shape) = 2 =>
               /\ report.total_slices = 1
               /\ report.slice_type = "single_slice"
               /\ report.detection_method = <<"2d_array_single_slice">>

\* C7 amended: with the tag absent or zero, a 4-D buffer is reported as
\* multi_frame_4d with total_slices = shape[0]: the rule's
\* max(shape[0], shape[1]) is cut back to shape[0] by the validation, and
\* the method is "4d_array_analysis", followed by "_corrected" exactly when
\* shape[1] > shape[0]; 3-D and 2-D buffers are reported as stated.
C7_ShapeRules ==
    (Detected /\ FramesTagAbsentOrZero) =>
        /\ Len(ds.shape) = 4 =>
               /\ DecisionRules(ds.shape, ds.tags).total_slices
                      = Max2(Dim(ds.shape, 0), Dim(ds.shape, 1))
               /\ report.total_slices = Dim(ds.shape, 0)
               /\ report.slice_type = "multi_frame_4d"
               /\ report.detection_method =
                      IF Dim(ds.shape, 1) > Dim(ds.shape, 0)
                      THEN <<"4d_array_analysis", "_corrected">>
                      ELSE <<"4d_array_analysis">>
        /\ Len(ds.shape) = 3 =>
               /\ report.total_slices = Dim(ds.shape, 0)
               /\ report.slice_type = "multi_frame_3d"
               /\ report.detection_method = <<"3d_array_analysis">>
        /\ Len(ds.shape) = 2 =>
               /\ report.total_slices = 1
               /\ report.slice_type = "single_slice"
               /\ report.detection_method = <<"2d_array_single_slice">>

\* a 4-D buffer whose second axis is the larger one was reported
C7_Witness ==
    /\ Detected /\ ~hasattr(FramesTag)
    /\ Len(ds.shape) = 4 /\ Dim(ds.shape, 1) > Dim(ds.shape, 0)
    /\ report.total_slices = Dim(ds.shape, 0)
    /\ EndsCorrected(report.detection_method)

\* C8 as stated, on buffers of 2 to 4 axes: every report has
\* total_slices >= 1.
C8_Original == (Detected /\ ImageBuffer) => report.total_slices >= 1

\* the claim's score in tenths: clamp(5 + A + B - C, 1, 10)
ClaimedConfidence ==
    LET A == IF hasattr(FramesTag) THEN 4 ELSE 0
        B == IF Len(ds.shape) >= 3
                  /\ report.total_slices = Dim(ds.shape, 0) THEN 3 ELSE 0
        C == IF Len(ds.shape) >= 3 /\ report.total_slices = 1 THEN 3 ELSE 0
        sum == 5 + A + B - C
    IN  IF sum < 1 THEN 1 ELSE IF sum > 10 THEN 10 ELSE sum

\* C9 as stated, on buffers of 2 to 4 axes: the confidence of every report
\* is the clamped score.
C9_Original ==
    (Detected /\ ImageBuffer) => report.confidence = ClaimedConfidence

\* C9 amended: the confidence of every report of the normal return is the
\* clamped score, computed on total_slices after the validation; the
\* error_fallback report has confidence 0.1 whatever the score would be;
\* every confidence is within [0.1, 1.0].
C9_Confidence ==
    Detected =>
        /\ ~report.error => report.confidence = ClaimedConfidence
        /\ report.error => report.confidence = 1
        /\ report.confidence \in 1..10

\* tag present and count equal to shape[0]: 0.5 + 0.4 + 0.3 clamped to 1.0
C9_Witness ==
    /\ Detected /\ ~report.error
    /\ hasattr(FramesTag)
    /\ Len(ds.shape) >= 3 /\ report.total_slices = Dim(ds.shape, 0)
    /\ report.total_slices > 1
    /\ report.confidence = 10

(***************************************************************************)
(* Properties of the normalisation (under SpecNorm)                        *)
(***************************************************************************)
NormDone == gray # <<>>

\* C13 as stated, on the slices whose maximum is at most 255: the 8-bit
\* output of a slice of integer samples with a nonzero range is within
\* [0,255] and monotonic in the input.
C13_Original ==
    (NormDone /\ ArrayMax(pixels.data) <= 255) =>
        /\ \A k \in DOMAIN gray : gray[k] \in 0..255
        /\ \A j \in DOMAIN gray, k \in DOMAIN gray :
               pixels.data[j] <= pixels.data[k] => gray[j] <= gray[k]

(***************************************************************************)
(* Properties of the PNG cache                                             *)
(***************************************************************************)
CallDone(p) == calls # <<>> /\ calls[p].pc = "done"

\* C11 as stated (under SpecPng): whatever the interleaving of the
\* callers, every caller that returns success, cached true or false,
\* returns when the file at png_path holds the complete image; so no
\* caller is told cached = true for a file another caller is still writing.
C11_Original ==
    \A p \in Callers :
        (CallDone(p) /\ calls[p].res.success) => calls[p].complete

\* C12 as stated (under SpecPngSeq): for a source file with pixel data and
\* an empty cache, the first of two sequential calls returns cached = false
\* and the second cached = true with the same png_path.
C12_Original ==
    (ds.has_pixel /\ CallDone(1) /\ CallDone(2)) =>
        /\ calls[1].res.success /\ ~calls[1].res.cached
        /\ calls[2].res.success /\ calls[2].res.cached
        /\ calls[2].res.png_path = calls[1].res.png_path

\* C12 amended (under SpecPngSeq): when the source has pixel data that
\* renders, the first sequential call returns cached = false and every
\* later call cached = true with the same png_path, the file having been
\* written once, whole, with the picked slice; when the source has no pixel
\* data or rendering raises, every call fails and no file is created.
C12_CachedAfterFirst ==
    \A p \in Callers :
        CallDone(p) =>
            IF ds.has_pixel /\ ~RenderRaises(ds.shape, slice_index)
            THEN /\ calls[p].res.success
                 /\ calls[p].res.cached = (p # 1)
                 /\ calls[p].res.png_path = calls[1].res.png_path
                 /\ Complete(cache)
                 /\ cache.opens = 1
                 /\ cache.slice = RenderedSlice(ds.shape, slice_index)
            ELSE /\ ~calls[p].res.success
                 /\ cache = NoCache

\* C12 witness: the second call has returned cached = true for a slice
\* index beyond the buffer's first axis
C12_Witness ==
    /\ CallDone(2)
    /\ calls[2].res.cached
    /\ Len(ds.shape) = 3
    /\ slice_index >= Dim(ds.shape, 0)

====
